---- MODULE Spec2Model ----
(***************************************************************************)
(* A model of the Neo-Riemannian explorer: the pure music-theory engine of *)
(* src/src/utils/musicUtils.js (the second, {notes, isSelfMap} version,    *)
(* lines 471-990), the tables of the constants module (src/unnamed/        *)
(* part_000) and the traversal-history hook src/src/hooks/                 *)
(* useChordHistory.js.                                                     *)
(*                                                                         *)
(* Spec       : the history hook as a state machine, one action per        *)
(*              callback.                                                  *)
(* SpecEngine : the pure functions of the engine, applied to inputs drawn  *)
(*              from bounded sets; op/arg/res hold the last call and prev  *)
(*              the call whose result was fed into it.                     *)
(***************************************************************************)
EXTENDS Integers, Sequences, FiniteSets, TLC

VARIABLES
    currentChord,   \* useState(INITIAL_CHORD.notes)
    history,        \* useState([createInitialState()])
    edges,          \* useState([])
    undoStack,      \* useState([])
    redoStack,      \* useState([])
    viewBox,        \* useState(DEFAULT_VIEWBOX)
    now,            \* the clock read by Date.now()
    op,             \* name of the last function or callback that ran
    arg,            \* its arguments
    res,            \* what it returned
    prev            \* the calls whose result was chained into this one; for
                    \* a callback of the hook that changed the state, the
                    \* state it was called in
    ,heap           \* the arrays that outlive a call of the engine: the
                    \* tables of the constants module, the array handed to
                    \* the call and an array another caller holds

hookVars == <<currentChord, history, edges, undoStack, redoStack, viewBox, now>>
callVars == <<op, arg, res, prev>>
vars == <<currentChord, history, edges, undoStack, redoStack, viewBox, now,
          op, arg, res, prev, heap>>

(***************************************************************************)
(* Bounds of the model.                                                    *)
(***************************************************************************)
MaxNote == 25        \* raw notes are drawn from -MaxNote..MaxNote
MaxChordLen == 3     \* input chords have 0..MaxChordLen pitch classes

(***************************************************************************)
(* Tables of the constants module.                                         *)
(***************************************************************************)
NOTES == <<"C", "C#", "D", "Eb", "E", "F", "F#", "G", "Ab", "A", "Bb", "B">>

CHORD_DEFINITIONS == <<
    [name |-> "Major",        suffix |-> "",     intervals |-> <<0, 4, 7>>],
    [name |-> "Minor",        suffix |-> "m",    intervals |-> <<0, 3, 7>>],
    [name |-> "Diminished",   suffix |-> "dim",  intervals |-> <<0, 3, 6>>],
    [name |-> "Augmented",    suffix |-> "aug",  intervals |-> <<0, 4, 8>>],
    [name |-> "Major 7",      suffix |-> "maj7", intervals |-> <<0, 4, 7, 11>>],
    [name |-> "Minor 7",      suffix |-> "m7",   intervals |-> <<0, 3, 7, 10>>],
    [name |-> "Dominant 7",   suffix |-> "7",    intervals |-> <<0, 4, 7, 10>>],
    [name |-> "Diminished 7", suffix |-> "dim7", intervals |-> <<0, 3, 6, 9>>],
    [name |-> "Half Dim 7",   suffix |-> "m7b5", intervals |-> <<0, 3, 6, 10>>],
    [name |-> "Sus 4",        suffix |-> "sus4", intervals |-> <<0, 5, 7>>],
    [name |-> "Sus 2",        suffix |-> "sus2", intervals |-> <<0, 2, 7>>],
    [name |-> "Add 9",        suffix |-> "add9", intervals |-> <<0, 2, 4, 7>>],
    [name |-> "Minor 9",      suffix |-> "m9",   intervals |-> <<0, 3, 7, 10, 14>>],
    [name |-> "Major 9",      suffix |-> "maj9", intervals |-> <<0, 4, 7, 11, 14>>],
    [name |-> "Dominant 9",   suffix |-> "9",    intervals |-> <<0, 4, 7, 10, 14>>] >>

(***************************************************************************)
(* Basic math utilities.                                                   *)
(***************************************************************************)
\* JavaScript's n % m: the remainder takes the sign of the dividend.
JsRem(n, m) == IF n >= 0 THEN n % m ELSE -((-n) % m)

\* The default modulo base of mod (m = 12).
ModBase == 12

\* mod without the second reduction: the remainder keeps the sign of n.
modRemainder(n) == JsRem(n, ModBase)

\* mod = (n, m = 12) => ((n % m) + m) % m
mod(n) == JsRem(JsRem(n, ModBase) + ModBase, ModBase)

PitchClasses == 0..(ModBase - 1)

\* v placed before the first element of the ascending s that is not below it.
RECURSIVE InsertAsc(_, _)
InsertAsc(v, s) ==
    IF s = <<>> THEN <<v>>
    ELSE IF v <= Head(s) THEN <<v>> \o s
    ELSE <<Head(s)>> \o InsertAsc(v, Tail(s))

\* Array.prototype.sort((a, b) => a - b): a stable ascending sort.
RECURSIVE SortAsc(_)
SortAsc(s) ==
    IF s = <<>> THEN <<>>
    ELSE InsertAsc(Head(s), SortAsc(Tail(s)))

\* normalize reducing the notes without sorting them.
normalizeUnsorted(notes) == [i \in 1..Len(notes) |-> mod(notes[i])]

\* normalize = (notes) => [...notes].map(n => mod(n)).sort((a, b) => a - b)
normalize(notes) == SortAsc([i \in 1..Len(notes) |-> mod(notes[i])])

\* arraysEqual compares the JSON texts of the two normalized arrays.
arraysEqual(a, b) == normalize(a) = normalize(b)

(***************************************************************************)
(* Chord identification.                                                   *)
(***************************************************************************)
\* The value of an array element read past the end of the array.
Undefined == "undefined"

\* Array.prototype.find / findIndex over the outcomes of the test on each
\* element, hits[k] for the k-th: the 1-based index of the first element from
\* position i on that passes, 0 when none does.
RECURSIVE FindFrom(_, _)
FindFrom(hits, i) ==
    IF i > Len(hits) THEN 0
    ELSE IF hits[i] THEN i
    ELSE FindFrom(hits, i + 1)

FindIndex(hits) == FindFrom(hits, 1)

\* String.prototype.includes
Includes(s, sub) ==
    \E i \in 1..(Len(s) - Len(sub) + 1) : SubSeq(s, i, i + Len(sub) - 1) = sub

\* sorted.map(n => mod(n - potentialRoot)).sort((a, b) => a - b)
IntervalsFrom(sorted, potentialRoot) ==
    SortAsc([i \in 1..Len(sorted) |-> mod(sorted[i] - potentialRoot)])

\* The family tag identifyChord derives from the matched definition's name.
ChordType(name) ==
    IF name = "Major" THEN "Major"
    ELSE IF name = "Minor" THEN "Minor"
    ELSE IF name = "Diminished" THEN "Dim"
    ELSE IF name = "Augmented" THEN "Aug"
    ELSE IF Includes(name, "Sus") THEN "Sus"
    ELSE IF Includes(name, "7") \/ Includes(name, "9") THEN "Seventh"
    ELSE "Other"

\* normalize(def.intervals) of every catalog entry: the left side of the
\* arraysEqual test of identifyChord.
CatalogForms ==
    [d \in 1..Len(CHORD_DEFINITIONS) |-> normalize(CHORD_DEFINITIONS[d].intervals)]

\* FindDefinition comparing the catalog's intervals as they are written.
FindDefinitionRaw(intervals) ==
    LET form == normalize(intervals)
    IN  FindIndex([d \in 1..Len(CHORD_DEFINITIONS) |->
                      CHORD_DEFINITIONS[d].intervals = form])

\* CHORD_DEFINITIONS.find(def => arraysEqual(def.intervals, intervals)), as
\* the 1-based index of the entry found (0 when none): arraysEqual compares
\* normalize(def.intervals) with normalize(intervals).
FindDefinition(intervals) ==
    LET form == normalize(intervals)
    IN  FindIndex([d \in 1..Len(CHORD_DEFINITIONS) |-> CatalogForms[d] = form])

\* identifyChord without its loop: only the lowest note is tried as the root.
IdentifyLowestRoot(sorted, i) ==
    LET found == IF sorted = <<>> THEN 0
                 ELSE FindDefinition(IntervalsFrom(sorted, sorted[1]))
    IN  IF found # 0
        THEN [root  |-> sorted[1],
              type  |-> ChordType(CHORD_DEFINITIONS[found].name),
              label |-> NOTES[sorted[1] + 1] \o CHORD_DEFINITIONS[found].suffix,
              name  |-> CHORD_DEFINITIONS[found].name]
        ELSE [root  |-> IF sorted = <<>> THEN Undefined ELSE sorted[1],
              type  |-> "Unknown",
              label |-> "?",
              name  |-> "Unknown"]

\* The body of identifyChord's loop, from index i (1-based) of sorted on.
RECURSIVE IdentifyFrom(_, _)
IdentifyFrom(sorted, i) ==
    IF i > Len(sorted)
    THEN [root  |-> IF sorted = <<>> THEN Undefined ELSE sorted[1],
          type  |-> "Unknown",
          label |-> "?",
          name  |-> "Unknown"]
    ELSE LET potentialRoot == sorted[i]
             found == FindDefinition(IntervalsFrom(sorted, potentialRoot))
             match == CHORD_DEFINITIONS[found]
         IN  IF found # 0
             THEN [root  |-> potentialRoot,
                   type  |-> ChordType(match.name),
                   label |-> NOTES[potentialRoot + 1] \o match.suffix,
                   name  |-> match.name]
             ELSE IdentifyFrom(sorted, i + 1)

identifyChord(notes) == IdentifyFrom(normalize(notes), 1)

\* buildChord = (root, intervals) => intervals.map(interval => mod(root + interval))
buildChord(root, intervals) ==
    [i \in 1..Len(intervals) |-> mod(root + intervals[i])]

(***************************************************************************)
(* Chord string parsing.  A JavaScript string is a TLA+ string; a value    *)
(* that may be null is the empty tuple for null and <<v>> for the value v.  *)
(***************************************************************************)
ENHARMONICS ==
    [name \in {"Db", "D#", "Eb", "Gb", "G#", "Ab", "A#", "Bb", "E#", "B#", "Cb", "Fb"} |->
        CASE name = "Db" -> 1  [] name = "D#" -> 3  [] name = "Eb" -> 3
          [] name = "Gb" -> 6  [] name = "G#" -> 8  [] name = "Ab" -> 8
          [] name = "A#" -> 10 [] name = "Bb" -> 10 [] name = "E#" -> 5
          [] name = "B#" -> 0  [] name = "Cb" -> 11 [] name = "Fb" -> 4]

Null == <<>>

CharAt(s, i) == SubSeq(s, i, i)
Slice(s, from) == SubSeq(s, from, Len(s))

UpperCaseLetters == "ABCDEFGHIJKLMNOPQRSTUVWXYZ"
LowerCaseLetters == "abcdefghijklmnopqrstuvwxyz"

\* The 1-based position of the character c in the alphabet, 0 when absent.
LetterIndex(alphabet, c) ==
    FindIndex([i \in 1..Len(alphabet) |-> CharAt(alphabet, i) = c])

\* String.prototype.toUpperCase
RECURSIVE toUpperCase(_)
toUpperCase(s) ==
    IF s = "" THEN ""
    ELSE LET at == LetterIndex(LowerCaseLetters, CharAt(s, 1))
         IN  (IF at = 0 THEN CharAt(s, 1) ELSE CharAt(UpperCaseLetters, at))
                 \o toUpperCase(Slice(s, 2))

\* String.prototype.toLowerCase
RECURSIVE toLowerCase(_)
toLowerCase(s) ==
    IF s = "" THEN ""
    ELSE LET at == LetterIndex(UpperCaseLetters, CharAt(s, 1))
         IN  (IF at = 0 THEN CharAt(s, 1) ELSE CharAt(LowerCaseLetters, at))
                 \o toLowerCase(Slice(s, 2))

\* The white space String.prototype.trim removes, and the line terminators
\* the regular expression's dot refuses, among the characters of the inputs.
WhiteSpace == {" ", "\t", "\n", "\r"}
LineTerminators == {"\n", "\r"}

\* String.prototype.trim
RECURSIVE trimStart(_)
trimStart(s) ==
    IF s # "" /\ CharAt(s, 1) \in WhiteSpace THEN trimStart(Slice(s, 2)) ELSE s

RECURSIVE trimEnd(_)
trimEnd(s) ==
    IF s # "" /\ CharAt(s, Len(s)) \in WhiteSpace
    THEN trimEnd(SubSeq(s, 1, Len(s) - 1))
    ELSE s

trim(s) == trimEnd(trimStart(s))

\* [A-G] and [#b] under the flag i.
RootLetters == {"A", "B", "C", "D", "E", "F", "G"}
Accidentals == {"#", "b", "B"}

\* The match without the flag i.
RegexMatchCaseSensitive(s) ==
    IF s = "" \/ CharAt(s, 1) \notin RootLetters
    THEN Null
    ELSE LET n == IF Len(s) >= 2 /\ CharAt(s, 2) \in {"#", "b"} THEN 2 ELSE 1
         IN  IF \E i \in (n + 1)..Len(s) : CharAt(s, i) \in LineTerminators
             THEN Null
             ELSE <<SubSeq(s, 1, n), Slice(s, n + 1)>>

\* s.match(/^([A-G][#b]?)(.*)$/i): Null, or the groups <<match[1], match[2]>>.
\* The optional accidental is taken when it is there; giving it back cannot
\* help the rest to match, which fails on a line terminator only.
RegexMatch(s) ==
    IF s = "" \/ toUpperCase(CharAt(s, 1)) \notin RootLetters
    THEN Null
    ELSE LET n == IF Len(s) >= 2 /\ CharAt(s, 2) \in Accidentals THEN 2 ELSE 1
         IN  IF \E i \in (n + 1)..Len(s) : CharAt(s, i) \in LineTerminators
             THEN Null
             ELSE <<SubSeq(s, 1, n), Slice(s, n + 1)>>

\* match[1].charAt(0).toUpperCase() + (match[1].slice(1) || '')
RootName(group) == toUpperCase(CharAt(group, 1)) \o Slice(group, 2)

\* NOTES.indexOf(rootName)
NotesIndexOf(rootName) ==
    FindIndex([i \in 1..Len(NOTES) |-> NOTES[i] = rootName]) - 1

\* ResolveRoot without the table of enharmonic spellings.
ResolveRootNotesOnly(rootName) == NotesIndexOf(rootName)

\* The root of parseChordString: NOTES first, then ENHARMONICS, else -1.
ResolveRoot(rootName) ==
    IF NotesIndexOf(rootName) # -1 THEN NotesIndexOf(rootName)
    ELSE IF rootName \in DOMAIN ENHARMONICS THEN ENHARMONICS[rootName]
    ELSE -1

\* [...CHORD_DEFINITIONS].sort((a, b) => b.suffix.length - a.suffix.length):
\* a stable sort, longest suffix first.
RECURSIVE InsertBySuffix(_, _)
InsertBySuffix(d, s) ==
    IF s = <<>> THEN <<d>>
    ELSE IF Len(d.suffix) >= Len(Head(s).suffix) THEN <<d>> \o s
    ELSE <<Head(s)>> \o InsertBySuffix(d, Tail(s))

RECURSIVE SortBySuffix(_)
SortBySuffix(s) ==
    IF s = <<>> THEN <<>> ELSE InsertBySuffix(Head(s), SortBySuffix(Tail(s)))

SortedDefinitions == SortBySuffix(CHORD_DEFINITIONS)

\* The test of the find of parseChordString.
QualityMatches(d, quality) ==
    IF d.suffix = "" /\ (quality = "" \/ quality = "maj" \/ quality = "M") THEN TRUE
    ELSE IF d.suffix = "m" /\ (quality = "min" \/ quality = "-") THEN TRUE
    ELSE IF d.suffix = "aug" /\ quality = "+" THEN TRUE
    ELSE IF d.suffix = "dim" /\ quality = "o" THEN TRUE
    ELSE toLowerCase(d.suffix) = quality

\* The minor triad as the default.
DefaultIntervalsMinor == <<0, 3, 7>>

\* The major triad, taken when no definition matches the quality.
DefaultIntervals == <<0, 4, 7>>

\* def ? def.intervals : [0, 4, 7]
QualityIntervals(quality) ==
    LET found == FindIndex([d \in 1..Len(SortedDefinitions) |->
                               QualityMatches(SortedDefinitions[d], quality)])
    IN  IF found # 0 THEN SortedDefinitions[found].intervals ELSE DefaultIntervals

parseChordString(str) ==
    LET match == RegexMatch(trim(str))
        root == ResolveRoot(RootName(match[1]))
        intervals == QualityIntervals(toLowerCase(match[2]))
    IN  IF match = Null THEN Null
        ELSE IF root = -1 THEN Null
        ELSE <<[i \in 1..Len(intervals) |-> mod(root + intervals[i])]>>

(***************************************************************************)
(* Negative harmony.                                                       *)
(***************************************************************************)
\* The dominant lies a fifth (7 semitones) above the tonic.
Fifth == 7

getNegativeNoteTranslated(note, keyRoot) ==
    LET axisSum == keyRoot + mod(keyRoot + Fifth)
    IN  mod(axisSum + note)
getNegativeNote(note, keyRoot) ==
    LET axisSum == keyRoot + mod(keyRoot + Fifth)
    IN  mod(axisSum - note)

getNegativeChord(chordNotes, keyRoot) ==
    [i \in 1..Len(chordNotes) |-> getNegativeNote(chordNotes[i], keyRoot)]

(***************************************************************************)
(* Neo-Riemannian transformations.                                         *)
(***************************************************************************)
\* knownStructures with the family tag Sus on both suspended shapes.
knownStructuresSusTag == <<
    [x |-> 4, y |-> 3, type |-> "Major", isSymmetric |-> FALSE],
    [x |-> 3, y |-> 4, type |-> "Minor", isSymmetric |-> FALSE],
    [x |-> 3, y |-> 3, type |-> "Dim",   isSymmetric |-> TRUE],
    [x |-> 4, y |-> 4, type |-> "Aug",   isSymmetric |-> TRUE],
    [x |-> 5, y |-> 2, type |-> "Sus",   isSymmetric |-> FALSE],
    [x |-> 2, y |-> 5, type |-> "Sus",   isSymmetric |-> FALSE] >>

\* knownStructures with the diminished shape not flagged symmetric.
knownStructuresDimAsymmetric == <<
    [x |-> 4, y |-> 3, type |-> "Major", isSymmetric |-> FALSE],
    [x |-> 3, y |-> 4, type |-> "Minor", isSymmetric |-> FALSE],
    [x |-> 3, y |-> 3, type |-> "Dim",   isSymmetric |-> FALSE],
    [x |-> 4, y |-> 4, type |-> "Aug",   isSymmetric |-> TRUE],
    [x |-> 5, y |-> 2, type |-> "Sus4",  isSymmetric |-> FALSE],
    [x |-> 2, y |-> 5, type |-> "Sus2",  isSymmetric |-> FALSE] >>

\* knownStructures without the two suspended shapes.
knownStructuresTriadsOnly == <<
    [x |-> 4, y |-> 3, type |-> "Major", isSymmetric |-> FALSE],
    [x |-> 3, y |-> 4, type |-> "Minor", isSymmetric |-> FALSE],
    [x |-> 3, y |-> 3, type |-> "Dim",   isSymmetric |-> TRUE],
    [x |-> 4, y |-> 4, type |-> "Aug",   isSymmetric |-> TRUE] >>

knownStructures == <<
    [x |-> 4, y |-> 3, type |-> "Major", isSymmetric |-> FALSE],
    [x |-> 3, y |-> 4, type |-> "Minor", isSymmetric |-> FALSE],
    [x |-> 3, y |-> 3, type |-> "Dim",   isSymmetric |-> TRUE],
    [x |-> 4, y |-> 4, type |-> "Aug",   isSymmetric |-> TRUE],
    [x |-> 5, y |-> 2, type |-> "Sus4",  isSymmetric |-> FALSE],
    [x |-> 2, y |-> 5, type |-> "Sus2",  isSymmetric |-> FALSE] >>

\* knownStructures.find(s => s.x === x && s.y === y)
FindStructure(x, y) ==
    FindIndex([s \in 1..Len(knownStructures) |->
                  knownStructures[s].x = x /\ knownStructures[s].y = y])

\* analyzeTrichord without the search for a root: the lowest note is the
\* root whatever the shape.
AnalyzeLowestRoot(sorted, i) ==
    LET potentialRoot == sorted[1]
        intervals == IntervalsFrom(sorted, potentialRoot)
        x == intervals[2]
        y == intervals[3] - intervals[2]
        found == FindStructure(x, y)
    IN  IF found # 0
        THEN [root |-> potentialRoot, x |-> x, y |-> y,
              type |-> knownStructures[found].type,
              isSymmetric |-> knownStructures[found].isSymmetric]
        ELSE [root |-> potentialRoot, x |-> x, y |-> y,
              type |-> "Unknown", isSymmetric |-> (x = y)]

\* analyzeTrichord with a fallback that is never flagged symmetric.
RECURSIVE AnalyzeFromPlainFallback(_, _)
AnalyzeFromPlainFallback(sorted, i) ==
    LET potentialRoot == sorted[IF i > Len(sorted) THEN 1 ELSE i]
        intervals == IntervalsFrom(sorted, potentialRoot)
        x == intervals[2]
        y == intervals[3] - intervals[2]
        found == FindStructure(x, y)
    IN  IF i > Len(sorted)
        THEN [root |-> potentialRoot, x |-> x, y |-> y,
              type |-> "Unknown", isSymmetric |-> FALSE]
        ELSE IF found # 0
        THEN [root |-> potentialRoot, x |-> x, y |-> y,
              type |-> knownStructures[found].type,
              isSymmetric |-> knownStructures[found].isSymmetric]
        ELSE AnalyzeFromPlainFallback(sorted, i + 1)

\* The loop of analyzeTrichord, from index i (1-based) of sorted on, and
\* its fallback.
RECURSIVE AnalyzeFrom(_, _)
AnalyzeFrom(sorted, i) ==
    LET potentialRoot == sorted[IF i > Len(sorted) THEN 1 ELSE i]
        intervals == IntervalsFrom(sorted, potentialRoot)
        x == intervals[2]
        y == intervals[3] - intervals[2]
        found == FindStructure(x, y)
        match == knownStructures[found]
    IN  IF i > Len(sorted)
        THEN [root |-> potentialRoot, x |-> x, y |-> y,
              type |-> "Unknown", isSymmetric |-> (x = y)]
        ELSE IF found # 0
        THEN [root |-> potentialRoot, x |-> x, y |-> y,
              type |-> match.type, isSymmetric |-> match.isSymmetric]
        ELSE AnalyzeFrom(sorted, i + 1)

analyzeTrichord(notes) ==
    IF Len(notes) # 3
    THEN LET info == identifyChord(notes)
         IN  [root |-> info.root, x |-> 4, y |-> 3, type |-> info.type,
              isSymmetric |-> FALSE]
    ELSE AnalyzeFrom(normalize(notes), 1)

\* notes.map(n => mod(n - root) === at ? moved : n), moved[i] being what the
\* note at position i becomes when it is the one to move.
MoveNote(notes, root, at, moved) ==
    [i \in 1..Len(notes) |->
        IF mod(notes[i] - root) = at THEN moved[i] ELSE notes[i]]

\* mod(n + by) for each note n.
Shifted(notes, by) == [i \in 1..Len(notes) |-> mod(notes[i] + by)]

\* mod(root + y) whatever the note.
Placed(notes, at) == [i \in 1..Len(notes) |-> mod(at)]

\* transformP writing the interval y where the pitch class root + y belongs.
transformPInterval(notes) ==
    LET a == analyzeTrichord(notes)
    IN  IF a.isSymmetric
        THEN [notes |-> notes, isSelfMap |-> TRUE, type |-> a.type]
        ELSE [notes |-> MoveNote(notes, a.root, a.x, Placed(notes, a.y)),
              isSelfMap |-> FALSE, type |-> a.type]

transformP(notes) ==
    LET a == analyzeTrichord(notes)
    IN  IF a.isSymmetric
        THEN [notes |-> notes, isSelfMap |-> TRUE, type |-> a.type]
        ELSE [notes |-> MoveNote(notes, a.root, a.x, Placed(notes, a.root + a.y)),
              isSelfMap |-> FALSE, type |-> a.type]

\* transformL with the comparison of x and y the other way round.
transformLFlipped(notes) ==
    LET a == analyzeTrichord(notes)
    IN  IF a.type = "Aug"
        THEN [notes |-> notes, isSelfMap |-> TRUE, type |-> a.type]
        ELSE IF a.type = "Dim"
        THEN [notes |-> MoveNote(notes, a.root, mod(a.x + a.y), Shifted(notes, 3)),
              isSelfMap |-> FALSE, type |-> "Aug"]
        ELSE IF a.x <= a.y
        THEN [notes |-> MoveNote(notes, a.root, 0, Shifted(notes, -1)),
              isSelfMap |-> FALSE, type |-> a.type]
        ELSE [notes |-> MoveNote(notes, a.root, mod(a.x + a.y), Shifted(notes, 1)),
              isSelfMap |-> FALSE, type |-> a.type]

\* transformL without the special case of the augmented triad.
transformLNoAug(notes) ==
    LET a == analyzeTrichord(notes)
    IN  IF a.type = "Dim"
        THEN [notes |-> MoveNote(notes, a.root, mod(a.x + a.y), Shifted(notes, 3)),
              isSelfMap |-> FALSE, type |-> "Aug"]
        ELSE IF a.x >= a.y
        THEN [notes |-> MoveNote(notes, a.root, 0, Shifted(notes, -1)),
              isSelfMap |-> FALSE, type |-> a.type]
        ELSE [notes |-> MoveNote(notes, a.root, mod(a.x + a.y), Shifted(notes, 1)),
              isSelfMap |-> FALSE, type |-> a.type]

transformL(notes) ==
    LET a == analyzeTrichord(notes)
    IN  IF a.type = "Aug"
        THEN [notes |-> notes, isSelfMap |-> TRUE, type |-> a.type]
        ELSE IF a.type = "Dim"
        THEN [notes |-> MoveNote(notes, a.root, mod(a.x + a.y), Shifted(notes, 3)),
              isSelfMap |-> FALSE, type |-> "Aug"]
        ELSE IF a.x >= a.y
        THEN [notes |-> MoveNote(notes, a.root, 0, Shifted(notes, -1)),
              isSelfMap |-> FALSE, type |-> a.type]
        ELSE [notes |-> MoveNote(notes, a.root, mod(a.x + a.y), Shifted(notes, 1)),
              isSelfMap |-> FALSE, type |-> a.type]

\* transformR moving by a semitone where the whole tone belongs.
transformRSemitone(notes) ==
    LET a == analyzeTrichord(notes)
    IN  IF a.type = "Aug"
        THEN [notes |-> notes, isSelfMap |-> TRUE, type |-> a.type]
        ELSE IF a.type = "Dim"
        THEN [notes |-> MoveNote(notes, a.root, 0, Shifted(notes, 9)),
              isSelfMap |-> FALSE, type |-> "Aug"]
        ELSE IF a.x >= a.y
        THEN [notes |-> MoveNote(notes, a.root, mod(a.x + a.y), Shifted(notes, 1)),
              isSelfMap |-> FALSE, type |-> a.type]
        ELSE [notes |-> MoveNote(notes, a.root, 0, Shifted(notes, -1)),
              isSelfMap |-> FALSE, type |-> a.type]

transformR(notes) ==
    LET a == analyzeTrichord(notes)
    IN  IF a.type = "Aug"
        THEN [notes |-> notes, isSelfMap |-> TRUE, type |-> a.type]
        ELSE IF a.type = "Dim"
        THEN [notes |-> MoveNote(notes, a.root, 0, Shifted(notes, 9)),
              isSelfMap |-> FALSE, type |-> "Aug"]
        ELSE IF a.x >= a.y
        THEN [notes |-> MoveNote(notes, a.root, mod(a.x + a.y), Shifted(notes, 2)),
              isSelfMap |-> FALSE, type |-> a.type]
        ELSE [notes |-> MoveNote(notes, a.root, 0, Shifted(notes, -2)),
              isSelfMap |-> FALSE, type |-> a.type]

applyTransform(notes, type) ==
    CASE type = "P" -> transformP(notes)
      [] type = "L" -> transformL(notes)
      [] type = "R" -> transformR(notes)
      [] OTHER      -> [notes |-> notes, isSelfMap |-> FALSE]

(***************************************************************************)
(* What a call leaves in the arrays it can reach.  A reference is the path *)
(* of an array of the heap, or Fresh for an array the call created itself. *)
(* The only operation of the engine that writes to an array is sort, which *)
(* sorts its receiver in place: the effect of a call is the sequence of    *)
(* the sorts it runs on arrays that outlive it, each with the reference of *)
(* its receiver.                                                           *)
(***************************************************************************)
Fresh == <<>>
InputRef == <<"input">>
OtherRef == <<"other">>
DefinitionsRef == <<"CHORD_DEFINITIONS">>

\* def.intervals of the entry d of CHORD_DEFINITIONS
IntervalsRef(d) == <<"CHORD_DEFINITIONS", d>>

Deref(h, ref) ==
    IF Len(ref) = 1 THEN h[ref[1]] ELSE h.CHORD_DEFINITIONS[ref[2]].intervals

Store(h, ref, items) ==
    IF Len(ref) = 1
    THEN [h EXCEPT ![ref[1]] = items]
    ELSE [h EXCEPT !.CHORD_DEFINITIONS[ref[2]].intervals = items]

\* [...a] without the copy: the array a itself.
SpreadAlias(ref) == ref

\* [...a] is a new array.
Spread(ref) == Fresh

\* a.map(f) is a new array.
ArrayMap(ref) == Fresh

\* a.sort((a, b) => a - b)
SortNumbers(ref) == [ref |-> ref, by |-> "number"]

\* a.sort((a, b) => b.suffix.length - a.suffix.length)
SortDefinitions(ref) == [ref |-> ref, by |-> "suffix"]

\* The sort s is of an array that outlives the call.
IsWrite(s) == s.ref # Fresh

\* Of the sorts a call runs, those of arrays that outlive it.
Writes(sorts) == SelectSeq(sorts, IsWrite)

\* [...notes].map(n => mod(n)).sort((a, b) => a - b)
normalizeSorts(notes) == Writes(<<SortNumbers(ArrayMap(Spread(notes)))>>)

\* normalize(a), normalize(b)
arraysEqualSorts(a, b) == normalizeSorts(a) \o normalizeSorts(b)

\* CHORD_DEFINITIONS.find(def => arraysEqual(def.intervals, intervals)), the
\* callback running on the entries 1..last; intervals is a new array.
RECURSIVE FindSortsFrom(_, _)
FindSortsFrom(d, last) ==
    IF d > last THEN <<>>
    ELSE arraysEqualSorts(IntervalsRef(d), Fresh) \o FindSortsFrom(d + 1, last)

FindSortsUpTo == [last \in 0..Len(CHORD_DEFINITIONS) |-> FindSortsFrom(1, last)]

FindSorts(last) == FindSortsUpTo[last]

\* The loop of identifyChord from index i of sorted on: sorted.map(...) is
\* sorted, and find runs up to the entry that matches, found, or over the
\* whole table when found is 0.
RECURSIVE IdentifySortsFrom(_, _)
IdentifySortsAt(sorted, i, found) ==
    IF found # 0 THEN FindSorts(found)
    ELSE FindSorts(Len(CHORD_DEFINITIONS)) \o IdentifySortsFrom(sorted, i + 1)

\* One iteration that finds nothing: the sort of sorted.map(...) and find
\* over the whole table.  When this sorts no array that outlives the call,
\* no iteration does, wherever find stops.
IterationSorts ==
    Writes(<<SortNumbers(ArrayMap(Fresh))>>) \o FindSorts(Len(CHORD_DEFINITIONS))

IdentifySortsFrom(sorted, i) ==
    IF IterationSorts = <<>> THEN <<>>
    ELSE IF i > Len(sorted) THEN <<>>
    ELSE Writes(<<SortNumbers(ArrayMap(Fresh))>>)
             \o IdentifySortsAt(sorted, i,
                                FindDefinition(IntervalsFrom(sorted, sorted[i])))

\* sorted = normalize(notes) is a new array.
identifyChordSorts(h, notes) ==
    normalizeSorts(notes) \o IdentifySortsFrom(normalize(Deref(h, notes)), 1)

\* Past the two early returns, [...CHORD_DEFINITIONS].sort(...); find reads
\* the entries and intervals.map(...) is a new array.
parseChordStringSorts(str) ==
    LET match == RegexMatch(trim(str))
        root == ResolveRoot(RootName(match[1]))
    IN  IF match = Null THEN <<>>
        ELSE IF root = -1 THEN <<>>
        ELSE Writes(<<SortDefinitions(Spread(DefinitionsRef))>>)

\* intervals.map(interval => mod(root + interval)): nothing is sorted.
buildChordSorts(intervals) == <<>>

\* chordNotes.map(n => getNegativeNote(n, keyRoot)): nothing is sorted.
getNegativeChordSorts(chordNotes) == <<>>

\* identifyChord(notes) for a chord that has not three notes; otherwise
\* normalize(notes), then sorted.map(...).sort(...) in the iterations of the
\* loop and in the fallback.
analyzeTrichordSorts(h, notes) ==
    IF Len(Deref(h, notes)) # 3
    THEN identifyChordSorts(h, notes)
    ELSE normalizeSorts(notes)
             \o Writes([i \in 1..(Len(Deref(h, notes)) + 1) |->
                            SortNumbers(ArrayMap(Fresh))])

\* transformP, transformL and transformR: analyzeTrichord(notes), then
\* [...notes] or notes.map(...), which sort nothing.
transformSorts(h, notes) == analyzeTrichordSorts(h, notes)

\* The default branch returns the array notes itself.
applyTransformSorts(h, notes, type) ==
    IF type \in {"P", "L", "R"} THEN transformSorts(h, notes) ELSE <<>>

\* The array of the heap the sort s is called on, sorted.
SortAt(h, s) ==
    Store(h, s.ref, IF s.by = "number" THEN SortAsc(Deref(h, s.ref))
                                       ELSE SortBySuffix(Deref(h, s.ref)))

RECURSIVE ApplySorts(_, _)
ApplySorts(h, sorts) ==
    IF sorts = <<>> THEN h ELSE ApplySorts(SortAt(h, Head(sorts)), Tail(sorts))

\* The heap after a call that ran the given sorts.
After(h, sorts) == ApplySorts(h, sorts)

(***************************************************************************)
(* Tonnetz geometry.  The angles are multiples of 60 degrees, so every     *)
(* horizontal displacement is a multiple of sqrt(3)/2 and every vertical   *)
(* one a multiple of 1/2: a horizontal quantity r*sqrt(3)/2 + q is kept    *)
(* exactly, as the pair Surd(r, q).                                        *)
(***************************************************************************)
Surd(r, q) == [r |-> r, q |-> q]
SurdAdd(a, b) == Surd(a.r + b.r, a.q + b.q)

\* Math.sin of an angle in degrees, in units of sqrt(3)/2.
SinSurd(deg) ==
    CASE deg % 360 \in {0, 180}   -> 0
      [] deg % 360 \in {60, 120}  -> 1
      [] deg % 360 \in {240, 300} -> -1

\* Twice Math.cos of an angle in degrees.
CosTwice(deg) ==
    CASE deg % 360 = 0            -> 2
      [] deg % 360 \in {60, 300}  -> 1
      [] deg % 360 \in {120, 240} -> -1
      [] deg % 360 = 180          -> -2

\* TONNETZ_NODE_DISTANCE
TONNETZ_NODE_DISTANCE == 60

\* The angle chosen whatever the chord type is.
TonnetzAngleOfMajor(transformType, isMajor) ==
    CASE transformType = "P" -> 0
      [] transformType = "R" -> 120
      [] transformType = "L" -> 240

\* The angle the switch chooses, in degrees clockwise from straight up.
TonnetzAngle(transformType, isMajor) ==
    CASE transformType = "P" -> IF isMajor THEN 0 ELSE 180
      [] transformType = "R" -> IF isMajor THEN 120 ELSE 120 + 180
      [] transformType = "L" -> IF isMajor THEN 240 ELSE 240 + 180

calculateTonnetzDelta(transformType, currentChordType, distance) ==
    LET isMajor == currentChordType = "Major"
        angle == TonnetzAngle(transformType, isMajor)
    IN  IF transformType \notin {"P", "R", "L"}
        THEN [dx |-> Surd(0, 0), dy |-> 0]
        ELSE [dx |-> Surd(distance * SinSurd(angle), 0),
              dy |-> (-distance * CosTwice(angle)) \div 2]

(***************************************************************************)
(* The chord history hook.                                                 *)
(***************************************************************************)
MaxHistory == 3      \* applyTransformation is offered while history is shorter
MaxClock == 0        \* Date.now() reads 0..MaxClock

\* A diminished triad as the initial chord.
InitialChordDiminished == [notes |-> <<0, 3, 6>>, label |-> "Cdim", type |-> "Dim"]

INITIAL_CHORD == [notes |-> <<0, 4, 7>>, label |-> "C Major", type |-> "Major"]

\* Half the width and height of the view box: what centres a node in it.
ViewCentre == 150

DEFAULT_VIEWBOX == [x |-> Surd(0, -ViewCentre), y |-> -ViewCentre,
                    w |-> 2 * ViewCentre, h |-> 2 * ViewCentre]

createInitialState ==
    [notes |-> INITIAL_CHORD.notes, id |-> "start", x |-> Surd(0, 0), y |-> 0,
     label |-> INITIAL_CHORD.label, op |-> "Start", type |-> INITIAL_CHORD.type]

\* The three transformations the controls and the keyboard offer.
TransformTypes == {"P", "L", "R"}

\* Chords handed to setChord: a diminished triad, and an augmented triad that
\* is not normalized.
SetChordInputs == { <<0, 3, 6>>, <<4, 8, 0>> }

\* useMemo(() => identifyChord(currentChord), [currentChord])
chordInfo == identifyChord(currentChord)

\* `${label}-${Date.now()}`
NodeId(label, t) == label \o "-" \o ToString(t)

\* A snapshot that keeps the chord, the history and the view but no edges.
SnapshotWithoutEdges ==
    [chord |-> currentChord, history |-> history, edges |-> <<>>,
     viewBox |-> viewBox]

\* A snapshot that keeps the initial chord in place of the current one.
SnapshotOfInitialChord ==
    [chord |-> INITIAL_CHORD.notes, history |-> history, edges |-> edges,
     viewBox |-> viewBox]

\* The snapshot undo, redo and applyTransformation push.
Snapshot == [chord |-> currentChord, history |-> history, edges |-> edges,
             viewBox |-> viewBox]

\* The state the hook returns to the component.
Shown == [currentChord |-> currentChord, history |-> history, edges |-> edges,
          viewBox |-> viewBox]

\* canUndo: undoStack.length > 0, canRedo: redoStack.length > 0
canUndo == Len(undoStack) > 0
canRedo == Len(redoStack) > 0

\* setViewBox(prev => ({ ...prev, x: node.x - 150, y: node.y - 150 }))
CentreOn(node) ==
    [viewBox EXCEPT !.x = SurdAdd(node.x, Surd(0, -ViewCentre)),
                    !.y = node.y - ViewCentre]

\* The oldest entry of a stack in place of the latest.
First(s) == s[1]

Last(s) == s[Len(s)]
Front(s) == SubSeq(s, 1, Len(s) - 1)

\* An array held by another caller of the engine, not in normal form.
OtherArray == <<7, 0, 4>>

\* The heap before any call: the tables as the constants module declares
\* them, and the array about to be handed to the engine.
InitialHeap(input) ==
    [input |-> input, other |-> OtherArray, NOTES |-> NOTES,
     ENHARMONICS |-> ENHARMONICS, CHORD_DEFINITIONS |-> CHORD_DEFINITIONS]

HookInit ==
    /\ currentChord = INITIAL_CHORD.notes
    /\ history = <<createInitialState>>
    /\ edges = <<>>
    /\ undoStack = <<>>
    /\ redoStack = <<>>
    /\ viewBox = DEFAULT_VIEWBOX
    /\ now = 0

CallInit ==
    /\ op = "init"
    /\ arg = <<>>
    /\ res = <<>>
    /\ prev = <<>>

Init == HookInit /\ CallInit /\ heap = InitialHeap(<<>>)

\* The node applyTransformation builds for the transformed chord, with
\* Date.now() reading t.
TransformedNode(newNotes, transformType, t) ==
    LET newInfo == identifyChord(newNotes)
        prevNode == Last(history)
        delta == calculateTonnetzDelta(transformType, chordInfo.type,
                                       TONNETZ_NODE_DISTANCE)
    IN  [notes |-> normalize(newNotes),
         id    |-> NodeId(newInfo.label, t),
         label |-> newInfo.label,
         type  |-> newInfo.type,
         x     |-> SurdAdd(prevNode.x, delta.dx),
         y     |-> prevNode.y + delta.dy,
         op    |-> transformType]

\* applyTransformation without its early return.
SelfMapReturnNever(result) == FALSE

\* The test of the early return of applyTransformation.
SelfMapReturn(result) == result.isSelfMap

applyTransformation(transformType) ==
    \E result \in {applyTransform(currentChord, transformType)} :
        /\ Len(history) < MaxHistory
        /\ op' = "applyTransformation"
        /\ UNCHANGED heap
        /\ arg' = <<transformType>>
        /\ IF SelfMapReturn(result)
           THEN /\ res' = <<[notes |-> currentChord, isSelfMap |-> TRUE,
                             label |-> chordInfo.label, type |-> chordInfo.type]>>
                /\ prev' = <<>>
                /\ UNCHANGED hookVars
           ELSE \E t \in now..MaxClock :
                \E newNode \in {TransformedNode(result.notes, transformType, t)} :
                \E newEdge \in {[from |-> Last(history), to |-> newNode,
                                 type |-> transformType]} :
                    /\ now' = t
                    /\ undoStack' = Append(undoStack, Snapshot)
                    /\ redoStack' = <<>>
                    /\ currentChord' = newNode.notes
                    /\ history' = Append(history, newNode)
                    /\ edges' = Append(edges, newEdge)
                    /\ viewBox' = CentreOn(newNode)
                    /\ res' = <<newNode>>
                    /\ prev' = <<Shown>>

undo ==
    /\ op' = "undo"
    /\ UNCHANGED heap
    /\ arg' = <<>>
    /\ res' = <<>>
    /\ IF Len(undoStack) = 0
       THEN /\ prev' = <<>>
            /\ UNCHANGED hookVars
       ELSE \E lastState \in {Last(undoStack)} :
                /\ prev' = <<Shown>>
                /\ redoStack' = Append(redoStack, Snapshot)
                /\ currentChord' = lastState.chord
                /\ history' = lastState.history
                /\ edges' = lastState.edges
                /\ viewBox' = lastState.viewBox
                /\ undoStack' = Front(undoStack)
                /\ UNCHANGED now

redo ==
    /\ op' = "redo"
    /\ UNCHANGED heap
    /\ arg' = <<>>
    /\ res' = <<>>
    /\ IF Len(redoStack) = 0
       THEN /\ prev' = <<>>
            /\ UNCHANGED hookVars
       ELSE \E nextState \in {Last(redoStack)} :
                /\ prev' = <<Shown>>
                /\ undoStack' = Append(undoStack, Snapshot)
                /\ currentChord' = nextState.chord
                /\ history' = nextState.history
                /\ edges' = nextState.edges
                /\ viewBox' = nextState.viewBox
                /\ redoStack' = Front(redoStack)
                /\ UNCHANGED now

reset ==
    /\ op' = "reset"
    /\ UNCHANGED heap
    /\ arg' = <<>>
    /\ res' = <<>>
    /\ prev' = <<>>
    /\ currentChord' = INITIAL_CHORD.notes
    /\ history' = <<createInitialState>>
    /\ edges' = <<>>
    /\ viewBox' = DEFAULT_VIEWBOX
    /\ undoStack' = <<>>
    /\ redoStack' = <<>>
    /\ UNCHANGED now

\* The node setChord builds, with Date.now() reading t.
SetNode(normalizedNotes, t) ==
    LET info == identifyChord(normalizedNotes)
    IN  [notes |-> normalizedNotes, id |-> NodeId(info.label, t),
         label |-> info.label, type |-> info.type,
         x |-> Surd(0, 0), y |-> 0, op |-> "Set"]

setChord(notes) ==
    \E t \in now..MaxClock :
    \E newNode \in {SetNode(normalize(notes), t)} :
        /\ op' = "setChord"
        /\ UNCHANGED heap
        /\ arg' = <<notes>>
        /\ res' = <<>>
        /\ prev' = <<>>
        /\ now' = t
        /\ currentChord' = newNode.notes
        /\ history' = <<newNode>>
        /\ edges' = <<>>
        /\ viewBox' = DEFAULT_VIEWBOX
        /\ undoStack' = <<>>
        /\ redoStack' = <<>>

\* goToNode is handed a node of the rendered graph.
goToNode(targetNode) ==
    \E targetIndex \in {FindIndex([i \in 1..Len(history) |-> history[i].id = targetNode.id])} :
        /\ op' = "goToNode"
        /\ UNCHANGED heap
        /\ arg' = <<targetNode.id>>
        /\ prev' = <<>>
        /\ IF targetIndex = 0 \/ targetIndex = Len(history)
           THEN /\ res' = <<>>
                /\ UNCHANGED hookVars
           ELSE \E node \in {history[targetIndex]} :
                    /\ currentChord' = node.notes
                    /\ viewBox' = CentreOn(node)
                    /\ res' = <<node>>
                    /\ UNCHANGED <<history, edges, undoStack, redoStack, now>>

Next ==
    \/ \E transformType \in TransformTypes : applyTransformation(transformType)
    \/ undo
    \/ redo
    \/ reset
    \/ \E notes \in SetChordInputs : setChord(notes)
    \/ \E i \in 1..Len(history) : goToNode(history[i])

Spec == Init /\ [][Next]_vars

\* The traversal alone: the transformations and the navigation of the
\* graph, without the loading of a preset chord.
NextTraversal ==
    \/ \E transformType \in TransformTypes : applyTransformation(transformType)
    \/ undo
    \/ redo
    \/ reset
    \/ \E i \in 1..Len(history) : goToNode(history[i])

SpecTraversal == Init /\ [][NextTraversal]_vars

(***************************************************************************)
(* The engine's pure functions, applied to inputs drawn from bounded sets. *)
(* The initial state holds the function to call (op) and its arguments     *)
(* (arg); the call stores what it returns in res, and a call made on the   *)
(* result of the call before it keeps that call in prev.                   *)
(***************************************************************************)
Notes == (-MaxNote)..MaxNote

ChordInputs == UNION {[1..n -> PitchClasses] : n \in 0..MaxChordLen}

\* Raw notes around the octave boundaries and at the ends of Notes.
BoundaryNotes ==
    {-MaxNote, -ModBase - 1, -ModBase, -1, 0, 1, ModBase - 1, ModBase, MaxNote}

\* The sequences of raw notes handed to normalize.
NormalizeInputs == UNION {[1..n -> BoundaryNotes] : n \in 0..MaxChordLen}

\* What calculateTonnetzDelta is handed: the three transformations and
\* other strings, the chord types identifyChord produces and other strings,
\* and even distances (so that half a distance is an integer).
DeltaTypes == TransformTypes \cup {"p", "Start", "Set", ""}
DeltaFamilies ==
    {"Major", "Minor", "Dim", "Aug", "Sus", "Seventh", "Other", "Unknown",
     "major", ""}
DeltaDistances == {-2, 0, 2, TONNETZ_NODE_DISTANCE}

\* The chords built from the catalog, on every root.
CatalogChords ==
    {buildChord(root, CHORD_DEFINITIONS[d].intervals) :
        root \in PitchClasses, d \in 1..Len(CHORD_DEFINITIONS)}

\* The chords of ChordInputs written in ascending order.
AscendingChords ==
    {c \in ChordInputs : \A i \in 1..(Len(c) - 1) : c[i] <= c[i + 1]}

\* Every reordering of a chord.
Reorderings(c) ==
    {[i \in 1..Len(c) |-> c[p[i]]] :
        p \in {q \in [1..Len(c) -> 1..Len(c)] :
                  \A i, j \in 1..Len(c) : q[i] = q[j] => i = j}}

\* A chord with one note moved by whole octaves, within Notes.
OctaveShifts(c) ==
    UNION {{[c EXCEPT ![i] = n] : n \in {m \in Notes : m # c[i] /\ mod(m) = c[i]}} :
              i \in 1..Len(c)}

\* A chord with one of its notes doubled an octave higher.
Doublings(c) == {Append(c, c[i] + ModBase) : i \in 1..Len(c)}

\* What a caller may hand to identifyChord in place of the chord c.
Variants(c) == Reorderings(c) \cup OctaveShifts(c) \cup Doublings(c)

\* The strings handed to parseChordString: a first character, a second
\* one where an accidental may stand, a quality and white space around.
\* No quality begins with a character that can be read as an accidental.
LeadingCharacters ==
    RootLetters \cup {"a", "b", "c", "d", "e", "f", "g"} \cup {"H", "m", "7", ""}

QualityAliases == {"", "maj", "M", "min", "-", "+", "o"}

CatalogSuffixes == {CHORD_DEFINITIONS[d].suffix : d \in 1..Len(CHORD_DEFINITIONS)}

OtherQualities == {"x", "MAJ7", "Min", "O", "5", " m", "\nm", "m\r7"}

Qualities == CatalogSuffixes \cup QualityAliases \cup OtherQualities

Paddings == {"", " "}

ParseInputs ==
    {[letter |-> l, accidental |-> a, quality |-> q,
      str |-> w \o l \o a \o q \o w] :
        l \in LeadingCharacters, a \in {""} \cup Accidentals,
        q \in Qualities, w \in Paddings}

ThisCall == [op |-> op, arg |-> arg, res |-> res]

\* The array among the arguments of the call, if it has one of its own.
PassedArray(o, a) ==
    CASE o \in {"normalize", "identifyChord", "applyTransform", "analyzeTrichord"}
             -> a.notes
      [] o = "getNegativeChord" -> a.chordNotes
      [] OTHER -> <<>>

\* The heap with a new array handed to the next call.
Handing(input) == [heap EXCEPT !.input = input]

InitEngine ==
    /\ HookInit
    /\ res = <<>>
    /\ prev = <<>>
    /\ \/ /\ op = "getNegativeNote"
          /\ arg \in [note : Notes, keyRoot : PitchClasses]
       \/ /\ op = "applyTransform"
          /\ arg \in [notes : ChordInputs \cup CatalogChords, type : TransformTypes]
       \/ /\ op = "analyzeTrichord"
          /\ arg \in [notes : ChordInputs \cup CatalogChords]
       \/ /\ op = "buildChord"
          /\ arg \in {[root |-> root, intervals |-> CHORD_DEFINITIONS[d].intervals,
                       def |-> d] :
                      root \in PitchClasses, d \in 1..Len(CHORD_DEFINITIONS)}
       \/ /\ op = "parseChordString"
          /\ arg \in ParseInputs
       \/ /\ op = "getNegativeChord"
          /\ arg \in [chordNotes : CatalogChords, keyRoot : PitchClasses]
       \/ /\ op = "calculateTonnetzDelta"
          /\ arg \in [transformType : DeltaTypes, currentChordType : DeltaFamilies,
                      distance : DeltaDistances]
       \/ /\ op = "normalize"
          /\ arg \in [notes : NormalizeInputs]
       \/ /\ op = "identifyChord"
          /\ \E c \in AscendingChords \cup CatalogChords :
                 arg \in {[notes |-> c, variant |-> v] : v \in Variants(c)}
    /\ heap = InitialHeap(PassedArray(op, arg))

\* getNegativeNote(note, keyRoot)
CallGetNegativeNote ==
    /\ op = "getNegativeNote"
    /\ res = <<>>
    /\ res' = <<getNegativeNote(arg.note, arg.keyRoot)>>
    /\ UNCHANGED <<op, arg, prev, hookVars, heap>>

\* getNegativeNote(getNegativeNote(note, keyRoot), keyRoot)
CallGetNegativeNoteAgain ==
    /\ op = "getNegativeNote"
    /\ res # <<>>
    /\ prev = <<>>
    /\ prev' = <<ThisCall>>
    /\ arg' = [arg EXCEPT !.note = res[1]]
    /\ res' = <<getNegativeNote(res[1], arg.keyRoot)>>
    /\ UNCHANGED <<op, hookVars, heap>>

\* applyTransform(notes, type)
CallApplyTransform ==
    /\ op = "applyTransform"
    /\ res = <<>>
    /\ res' = <<applyTransform(arg.notes, arg.type)>>
    /\ heap' = After(heap, applyTransformSorts(heap, InputRef, arg.type))
    /\ UNCHANGED <<op, arg, prev, hookVars>>

\* applyTransform(applyTransform(notes, type).notes, type)
CallApplyTransformAgain ==
    /\ op = "applyTransform"
    /\ res # <<>>
    /\ prev = <<>>
    /\ prev' = <<ThisCall>>
    /\ arg' = [arg EXCEPT !.notes = res[1].notes]
    /\ res' = <<applyTransform(res[1].notes, arg.type)>>
    /\ heap' = After(Handing(res[1].notes),
                   applyTransformSorts(Handing(res[1].notes), InputRef, arg.type))
    /\ UNCHANGED <<op, hookVars>>

\* buildChord(root, def.intervals) for a catalog entry def
CallBuildChord ==
    /\ op = "buildChord"
    /\ res = <<>>
    /\ res' = <<buildChord(arg.root, arg.intervals)>>
    /\ heap' = After(heap, buildChordSorts(IntervalsRef(arg.def)))
    /\ UNCHANGED <<op, arg, prev, hookVars>>

\* identifyChord(buildChord(root, def.intervals))
CallIdentifyBuiltChord ==
    /\ op = "buildChord"
    /\ res # <<>>
    /\ prev' = <<ThisCall>>
    /\ op' = "identifyChord"
    /\ arg' = [notes |-> res[1]]
    /\ res' = <<identifyChord(res[1])>>
    /\ heap' = After(Handing(res[1]), identifyChordSorts(Handing(res[1]), InputRef))
    /\ UNCHANGED hookVars

\* identifyChord(notes)
CallIdentifyChord ==
    /\ op = "identifyChord"
    /\ res = <<>>
    /\ res' = <<identifyChord(arg.notes)>>
    /\ heap' = After(heap, identifyChordSorts(heap, InputRef))
    /\ UNCHANGED <<op, arg, prev, hookVars>>

\* identifyChord(variant), for a reordering, an octave shift or a doubling
\* of the notes of the call before.
CallIdentifyVariant ==
    /\ op = "identifyChord"
    /\ res # <<>>
    /\ prev = <<>>
    /\ prev' = <<ThisCall>>
    /\ arg' = [notes |-> arg.variant]
    /\ res' = <<identifyChord(arg.variant)>>
    /\ heap' = After(Handing(arg.variant),
                   identifyChordSorts(Handing(arg.variant), InputRef))
    /\ UNCHANGED <<op, hookVars>>

\* getNegativeChord(chordNotes, keyRoot)
CallGetNegativeChord ==
    /\ op = "getNegativeChord"
    /\ res = <<>>
    /\ res' = <<getNegativeChord(arg.chordNotes, arg.keyRoot)>>
    /\ heap' = After(heap, getNegativeChordSorts(InputRef))
    /\ UNCHANGED <<op, arg, prev, hookVars>>

\* parseChordString(str)
CallParseChordString ==
    /\ op = "parseChordString"
    /\ res = <<>>
    /\ res' = <<parseChordString(arg.str)>>
    /\ heap' = After(heap, parseChordStringSorts(arg.str))
    /\ UNCHANGED <<op, arg, prev, hookVars>>

\* analyzeTrichord(notes)
CallAnalyzeTrichord ==
    /\ op = "analyzeTrichord"
    /\ res = <<>>
    /\ res' = <<analyzeTrichord(arg.notes)>>
    /\ heap' = After(heap, analyzeTrichordSorts(heap, InputRef))
    /\ UNCHANGED <<op, arg, prev, hookVars>>

\* normalize(notes)
CallNormalize ==
    /\ op = "normalize"
    /\ res = <<>>
    /\ res' = <<normalize(arg.notes)>>
    /\ heap' = After(heap, normalizeSorts(InputRef))
    /\ UNCHANGED <<op, arg, prev, hookVars>>

\* normalize(normalize(notes))
CallNormalizeAgain ==
    /\ op = "normalize"
    /\ res # <<>>
    /\ prev = <<>>
    /\ prev' = <<ThisCall>>
    /\ arg' = [notes |-> res[1]]
    /\ res' = <<normalize(res[1])>>
    /\ heap' = After(Handing(res[1]), normalizeSorts(InputRef))
    /\ UNCHANGED <<op, hookVars>>

\* calculateTonnetzDelta(transformType, currentChordType, distance)
CallCalculateTonnetzDelta ==
    /\ op = "calculateTonnetzDelta"
    /\ res = <<>>
    /\ res' = <<calculateTonnetzDelta(arg.transformType, arg.currentChordType,
                                      arg.distance)>>
    /\ UNCHANGED <<op, arg, prev, hookVars, heap>>

\* The functions C21 is about.
PureFunctions ==
    {"normalize", "identifyChord", "parseChordString", "buildChord",
     "getNegativeNote", "getNegativeChord", "applyTransform"}

\* The call made again with the same arguments: an array among them is the
\* same array, read as the heap now holds it.
SameCall(h) ==
    CASE op = "normalize"        -> normalize(h.input)
      [] op = "identifyChord"    -> identifyChord(h.input)
      [] op = "parseChordString" -> parseChordString(arg.str)
      [] op = "buildChord"       ->
             buildChord(arg.root, Deref(h, IntervalsRef(arg.def)))
      [] op = "getNegativeNote"  -> getNegativeNote(arg.note, arg.keyRoot)
      [] op = "getNegativeChord" -> getNegativeChord(h.input, arg.keyRoot)
      [] op = "applyTransform"   -> applyTransform(h.input, arg.type)

SameCallSorts(h) ==
    CASE op = "normalize"        -> normalizeSorts(InputRef)
      [] op = "identifyChord"    -> identifyChordSorts(h, InputRef)
      [] op = "parseChordString" -> parseChordStringSorts(arg.str)
      [] op = "buildChord"       -> buildChordSorts(IntervalsRef(arg.def))
      [] op = "getNegativeNote"  -> <<>>
      [] op = "getNegativeChord" -> getNegativeChordSorts(InputRef)
      [] op = "applyTransform"   -> applyTransformSorts(h, InputRef, arg.type)

\* A call another caller makes in between, on an array of its own.
OtherCalls == {"normalize", "identifyChord", "parseChordString", "applyTransform"}

OtherCallSorts(h, f) ==
    CASE f = "normalize"        -> normalizeSorts(OtherRef)
      [] f = "identifyChord"    -> identifyChordSorts(h, OtherRef)
      [] f = "parseChordString" -> parseChordStringSorts("Bbm7")
      [] f = "applyTransform"   -> applyTransformSorts(h, OtherRef, "L")

\* Between a call and its repetition another caller calls the engine.
CallInBetween ==
    /\ op \in PureFunctions
    /\ res # <<>>
    /\ prev = <<>>
    /\ \E f \in OtherCalls : heap' = After(heap, OtherCallSorts(heap, f))
    /\ UNCHANGED <<op, arg, res, prev, hookVars>>

\* The same call, with the same arguments, once more.
CallSameAgain ==
    /\ op \in PureFunctions
    /\ res # <<>>
    /\ prev = <<>>
    /\ op' = "again"
    /\ arg' = [op |-> op, array |-> PassedArray(op, arg), first |-> res[1]]
    /\ res' = <<SameCall(heap)>>
    /\ heap' = After(heap, SameCallSorts(heap))
    /\ UNCHANGED <<prev, hookVars>>

NextEngine ==
    \/ CallGetNegativeNote
    \/ CallGetNegativeNoteAgain
    \/ CallApplyTransform
    \/ CallApplyTransformAgain
    \/ CallBuildChord
    \/ CallIdentifyBuiltChord
    \/ CallIdentifyChord
    \/ CallIdentifyVariant
    \/ CallGetNegativeChord
    \/ CallParseChordString
    \/ CallAnalyzeTrichord
    \/ CallCalculateTonnetzDelta
    \/ CallNormalize
    \/ CallNormalizeAgain
    \/ CallInBetween
    \/ CallSameAgain

SpecEngine == InitEngine /\ [][NextEngine]_vars


(***************************************************************************)
(* Properties of the engine, stated over the call records of SpecEngine:  *)
(* op, arg and res describe the latest call, prev the call before it when  *)
(* the latest call was made on its result.                                 *)
(***************************************************************************)
PcSet(notes) == {notes[i] : i \in 1..Len(notes)}

\* notes is some ordering of the triad root, root + third, root + fifth.
IsTriad(notes, root, third, fifth) ==
    /\ Len(notes) = 3
    /\ PcSet(notes) = {mod(root), mod(root + third), mod(root + fifth)}

IsMajor(notes, root) == IsTriad(notes, root, 4, 7)
IsMinor(notes, root) == IsTriad(notes, root, 3, 7)
IsDiminished(notes, root) == IsTriad(notes, root, 3, 6)
IsAugmented(notes, root) == IsTriad(notes, root, 4, 8)

\* out is in with the note from replaced by the note to, and nothing else
\* changed, position by position.
OnlyMoved(in, out, from, to) ==
    /\ Len(out) = Len(in)
    /\ \A i \in 1..Len(in) : out[i] = IF in[i] = from THEN mod(to) ELSE in[i]

\* The number of positions at which a and b differ.
Differences(a, b) == Cardinality({i \in 1..Len(a) : a[i] # b[i]})

Applied(type) == op = "applyTransform" /\ res # <<>> /\ arg.type = type

\* C1: reflecting a note twice about the axis of the same key gives back the
\* pitch class of the note: getNegativeNote(getNegativeNote(n, k), k) = mod(n)
\* for every integer n and every key k in 0..11.
C1_NegativeNoteInvolution ==
    (op = "getNegativeNote" /\ prev # <<>>) =>
        /\ arg.note = prev[1].res[1]
        /\ arg.keyRoot = prev[1].arg.keyRoot
        /\ res[1] = mod(prev[1].arg.note)

\* The note -7, below the octave, reflected twice in the key of F.
C1_Witness ==
    /\ op = "getNegativeNote" /\ prev # <<>>
    /\ prev[1].arg.note = -7 /\ arg.keyRoot = 5
    /\ prev[1].res[1] # res[1]
    /\ res[1] = 5

\* C2: P on a major triad in any ordering returns the minor triad on the same
\* root, and on a minor triad the major triad on the same root, never as a
\* self-map; only the third moves, every other position keeps its note.
C2_ParallelSwapsMajorMinor ==
    Applied("P") =>
        \A r \in PitchClasses :
            /\ IsMajor(arg.notes, r) =>
                /\ res[1].isSelfMap = FALSE
                /\ IsMinor(res[1].notes, r)
                /\ OnlyMoved(arg.notes, res[1].notes, mod(r + 4), r + 3)
            /\ IsMinor(arg.notes, r) =>
                /\ res[1].isSelfMap = FALSE
                /\ IsMajor(res[1].notes, r)
                /\ OnlyMoved(arg.notes, res[1].notes, mod(r + 3), r + 4)

\* P on G, C, E (C major, fifth first) gives G, C, D#.
C2_Witness ==
    /\ Applied("P") /\ prev = <<>>
    /\ arg.notes = <<7, 0, 4>>
    /\ res[1].notes = <<7, 0, 3>>

\* C3: L on a major triad {r, r+4, r+7} lowers the root by a semitone, giving
\* {r-1, r+4, r+7}; on a minor triad {r, r+3, r+7} it raises the fifth by a
\* semitone, giving {r, r+3, r+8}; neither is a self-map.
C3_LeadingToneExchange ==
    Applied("L") =>
        \A r \in PitchClasses :
            /\ IsMajor(arg.notes, r) =>
                /\ res[1].isSelfMap = FALSE
                /\ PcSet(res[1].notes) = {mod(r - 1), mod(r + 4), mod(r + 7)}
                /\ OnlyMoved(arg.notes, res[1].notes, r, r - 1)
            /\ IsMinor(arg.notes, r) =>
                /\ res[1].isSelfMap = FALSE
                /\ PcSet(res[1].notes) = {r, mod(r + 3), mod(r + 8)}
                /\ OnlyMoved(arg.notes, res[1].notes, mod(r + 7), r + 8)

\* L on C major gives B, E, G (E minor); the root wraps below 0.
C3_Witness ==
    /\ Applied("L") /\ prev = <<>>
    /\ arg.notes = <<0, 4, 7>>
    /\ res[1].notes = <<11, 4, 7>>
    /\ IsMinor(res[1].notes, 4)

\* C4: R on a major triad {r, r+4, r+7} raises the fifth by a whole tone,
\* giving {r, r+4, r+9}; on a minor triad {r, r+3, r+7} it lowers the root by
\* a whole tone, giving {r-2, r+3, r+7}; neither is a self-map.
C4_Relative ==
    Applied("R") =>
        \A r \in PitchClasses :
            /\ IsMajor(arg.notes, r) =>
                /\ res[1].isSelfMap = FALSE
                /\ PcSet(res[1].notes) = {r, mod(r + 4), mod(r + 9)}
                /\ OnlyMoved(arg.notes, res[1].notes, mod(r + 7), r + 9)
            /\ IsMinor(arg.notes, r) =>
                /\ res[1].isSelfMap = FALSE
                /\ PcSet(res[1].notes) = {mod(r - 2), mod(r + 3), mod(r + 7)}
                /\ OnlyMoved(arg.notes, res[1].notes, r, r - 2)

\* R on A minor written E, A, C gives E, G, C (C major).
C4_Witness ==
    /\ Applied("R") /\ prev = <<>>
    /\ arg.notes = <<4, 9, 0>>
    /\ res[1].notes = <<4, 7, 0>>
    /\ IsMajor(res[1].notes, 0)

\* C5: on the 24 major and minor triads each of P, L and R changes exactly
\* one position of the chord and keeps the other two, and applying the same
\* transformation to the result returns the original chord position by
\* position.
C5_InvolutionOnTriads ==
    (op = "applyTransform" /\ prev # <<>>) =>
        LET c == prev[1].arg.notes
            once == prev[1].res[1].notes
        IN  (\E r \in PitchClasses : IsMajor(c, r) \/ IsMinor(c, r)) =>
                /\ arg.type = prev[1].arg.type
                /\ arg.notes = once
                /\ Differences(c, once) = 1
                /\ res[1].notes = c

\* L twice on F minor written C, F, G#: C rises to C# and falls back.
C5_Witness ==
    /\ op = "applyTransform" /\ prev # <<>>
    /\ arg.type = "L"
    /\ prev[1].arg.notes = <<0, 5, 8>>
    /\ prev[1].res[1].notes = <<1, 5, 8>>
    /\ res[1].notes = <<0, 5, 8>>


\* C6: P on a chord of three notes whose analysed signature has x = y, the
\* diminished and augmented triads and the unclassified shapes of equal
\* steps, is a self-map: isSelfMap is true and the notes returned equal the
\* input position by position.
C6_ParallelFixesSymmetric ==
    (Applied("P") /\ Len(arg.notes) = 3) =>
        LET a == analyzeTrichord(arg.notes)
        IN  a.x = a.y =>
                /\ res[1].isSelfMap = TRUE
                /\ res[1].notes = arg.notes

\* P on the diminished triad F#, C, D#, analysed as (3, 3) on the root C.
C6_Witness ==
    /\ Applied("P") /\ prev = <<>>
    /\ arg.notes = <<6, 0, 3>>
    /\ analyzeTrichord(arg.notes).x = 3 /\ analyzeTrichord(arg.notes).y = 3
    /\ res[1].isSelfMap = TRUE
    /\ res[1].notes = <<6, 0, 3>>

\* C7: an augmented triad, in any ordering, is a fixed point of L and of R:
\* isSelfMap is true and the notes returned equal the input.
C7_AugmentedFixedByLR ==
    ((Applied("L") \/ Applied("R")) /\ \E r \in PitchClasses : IsAugmented(arg.notes, r)) =>
        /\ res[1].isSelfMap = TRUE
        /\ res[1].notes = arg.notes

\* L on the augmented triad G#, C, E.
C7_Witness ==
    /\ Applied("L") /\ prev = <<>>
    /\ arg.notes = <<8, 0, 4>>
    /\ res[1].isSelfMap = TRUE
    /\ res[1].notes = <<8, 0, 4>>

\* C8: L and R on a diminished triad return notes that form an augmented
\* triad, in agreement with the type 'Aug' they report.
C8_DiminishedLeadsToAugmented ==
    ((Applied("L") \/ Applied("R")) /\ \E r \in PitchClasses : IsDiminished(arg.notes, r)) =>
        /\ res[1].type = "Aug"
        /\ \E r \in PitchClasses : IsAugmented(res[1].notes, r)

\* C10: every catalog entry is found again from its own notes:
\* identifyChord(buildChord(root, def.intervals)).name = def.name for all 15
\* definitions and all 12 roots.
C10_CatalogRoundTrip ==
    (op = "identifyChord" /\ prev # <<>> /\ prev[1].op = "buildChord") =>
        res[1].name = CHORD_DEFINITIONS[prev[1].arg.def].name

\* C10, amended: the name is found again for the 13 definitions other than
\* Sus 4 and Sus 2 on every root; Sus 4 on the root r and Sus 2 on the root
\* r + 5 are the same notes, and identifyChord names them after the lower of
\* the two roots: Sus 4 is found again on the roots 0..6 and is named Sus 2
\* on 7..11, Sus 2 is found again on the roots 0..4 and is named Sus 4 on
\* 5..11.
C10_CatalogRoundTripButSus ==
    (op = "identifyChord" /\ prev # <<>> /\ prev[1].op = "buildChord") =>
        LET name == CHORD_DEFINITIONS[prev[1].arg.def].name
            root == prev[1].arg.root
        IN  /\ arg.notes = prev[1].res[1]
            /\ res[1].name = CASE name = "Sus 4" /\ root > 6 -> "Sus 2"
                               [] name = "Sus 2" /\ root > 4 -> "Sus 4"
                               [] OTHER -> name

\* The minor ninth on B, whose notes wrap round the octave, is found again.
C10_Witness ==
    /\ op = "identifyChord" /\ prev # <<>> /\ prev[1].op = "buildChord"
    /\ CHORD_DEFINITIONS[prev[1].arg.def].name = "Minor 9"
    /\ prev[1].arg.root = 11
    /\ arg.notes = <<11, 2, 6, 9, 1>>
    /\ res[1].name = "Minor 9"
    /\ res[1].root = 11

(***************************************************************************)
(* Properties of the history hook, stated over the steps of Spec.          *)
(***************************************************************************)
\* C9: when the transformation applied by applyTransformation is a self-map,
\* the call leaves currentChord, history, edges, viewBox, the undo stack and
\* the redo stack as they were.
C9_SelfMapLeavesStateAlone ==
    [][(op' = "applyTransformation" /\ applyTransform(currentChord, arg'[1]).isSelfMap)
          => UNCHANGED <<currentChord, history, edges, viewBox, undoStack, redoStack>>]_vars

\* P was applied to a diminished triad reached by an earlier transformation:
\* the call returned the self-map record and there is something to undo.
C9_Witness ==
    /\ op = "applyTransformation" /\ arg = <<"P">>
    /\ res # <<>> /\ "isSelfMap" \in DOMAIN res[1]
    /\ res[1].isSelfMap = TRUE
    /\ res[1].notes = currentChord
    /\ Len(history) > 1 /\ Len(undoStack) > 0


(***************************************************************************)
(* Properties of identification.                                           *)
(***************************************************************************)
SetMin(S) == CHOOSE m \in S : \A n \in S : m <= n

Identified == op = "identifyChord" /\ res # <<>>

\* The catalog entries, by index, whose intervals equal the sorted intervals
\* of the chord sorted relative to the root r.
EntriesMatching(sorted, r) ==
    {d \in 1..Len(CHORD_DEFINITIONS) :
        CatalogForms[d] = IntervalsFrom(sorted, r)}

\* C11: identifyChord returns the first match by ascending root: the root is
\* the smallest pitch class r of the normalized input for which a catalog
\* entry's intervals equal the input's sorted intervals relative to r, name
\* and label (note name of r, then the suffix) come from the first such
\* entry; when no member matches, the result is the smallest note as root
\* with type 'Unknown', label '?' and name 'Unknown'.
C11_FirstMatchByAscendingRoot ==
    Identified =>
        LET sorted == normalize(arg.notes)
            roots == {r \in PcSet(sorted) : EntriesMatching(sorted, r) # {}}
            r == SetMin(roots)
            def == CHORD_DEFINITIONS[SetMin(EntriesMatching(sorted, r))]
        IN  IF roots # {}
            THEN /\ res[1].root = r
                 /\ res[1].name = def.name
                 /\ res[1].label = NOTES[r + 1] \o def.suffix
            ELSE /\ arg.notes # <<>> => res[1].root = SetMin(PcSet(sorted))
                 /\ res[1].type = "Unknown"
                 /\ res[1].label = "?"
                 /\ res[1].name = "Unknown"

\* G, C, D is Sus 4 on G and Sus 2 on C: the lower root C is returned.
C11_Witness ==
    /\ Identified /\ prev = <<>>
    /\ arg.notes = <<7, 0, 2>>
    /\ EntriesMatching(<<0, 2, 7>>, 7) # {}
    /\ res[1] = [root |-> 0, type |-> "Sus", label |-> "Csus2", name |-> "Sus 2"]


\* C12: identifyChord respects the equivalence of orderings and octaves:
\* reordering the notes, or adding a multiple of 12, positive or negative, to
\* a note, leaves the ChordInfo returned (root, type, label, name) unchanged.
C12_IdentifyIgnoresOrderAndOctave ==
    (Identified /\ prev # <<>> /\ prev[1].op = "identifyChord"
        /\ Len(arg.notes) = Len(prev[1].arg.notes)) =>
        /\ arg.notes \in Reorderings(prev[1].arg.notes) \cup OctaveShifts(prev[1].arg.notes)
        /\ res[1] = prev[1].res[1]

\* A minor as A, C, E and with its E two octaves lower, below zero.
C12_Witness ==
    /\ Identified /\ prev # <<>> /\ prev[1].op = "identifyChord"
    /\ prev[1].arg.notes = <<9, 0, 4>>
    /\ arg.notes = <<9, 0, -20>>
    /\ res[1] = [root |-> 9, type |-> "Minor", label |-> "Am", name |-> "Minor"]
    /\ prev[1].res[1] = res[1]


\* The pitch classes of a chord, as a set.
PitchClassSet(notes) == {mod(notes[i]) : i \in 1..Len(notes)}

\* C13: chords with the same duplicate-free canonical form are identified
\* alike: two note collections with the same set of pitch classes, such as
\* a chord and the same chord with one tone doubled an octave higher, get
\* the same identification.
C13_SamePitchClassesSameIdentification ==
    (Identified /\ prev # <<>> /\ prev[1].op = "identifyChord"
        /\ PitchClassSet(arg.notes) = PitchClassSet(prev[1].arg.notes)) =>
        res[1] = prev[1].res[1]


(***************************************************************************)
(* Properties of negative harmony on chords.                               *)
(***************************************************************************)
\* C14: getNegativeChord([0, 4, 7], 0) returns [5, 8, 0]: reflecting the C
\* major triad in the key of C gives the F minor triad, in input order.
C14_NegativeOfCMajorIsFMinor ==
    (op = "getNegativeChord" /\ res # <<>>
        /\ arg.chordNotes = <<0, 4, 7>> /\ arg.keyRoot = 0) =>
        res[1] = <<5, 8, 0>>


(***************************************************************************)
(* Properties of chord string parsing.  arg.str is the string parsed, made *)
(* of arg.letter, arg.accidental and arg.quality with white space around.  *)
(***************************************************************************)
Parsed == op = "parseChordString" /\ res # <<>>

\* The pitch class of a natural note, and what an accidental adds to it.
NaturalPitchClass(letter) ==
    CASE letter = "C" -> 0 [] letter = "D" -> 2 [] letter = "E" -> 4
      [] letter = "F" -> 5 [] letter = "G" -> 7 [] letter = "A" -> 9
      [] letter = "B" -> 11

AccidentalOffset(accidental) ==
    CASE accidental = "" -> 0 [] accidental = "#" -> 1 [] accidental = "b" -> -1

SpelledRoot(letter, accidental) ==
    mod(NaturalPitchClass(letter) + AccidentalOffset(accidental))

\* The notes of the chord on a root, in the order of the intervals.
ChordOn(root, intervals) == [i \in 1..Len(intervals) |-> mod(root + intervals[i])]

WellSpelled == arg.letter \in RootLetters /\ arg.accidental \in {"", "#", "b"}

\* C15: parseChordString resolves each of the 21 spelled roots (a letter A..G
\* with no accidental, '#' or 'b': the natural pitch class +0, +1 or -1 mod
\* 12) and, for every catalog suffix, returns mod(root + i) for the
\* intervals i of that definition, in the definition's order.
C15_ParseSpelledRootAndSuffix ==
    (Parsed /\ WellSpelled) =>
        \A d \in 1..Len(CHORD_DEFINITIONS) :
            arg.quality = CHORD_DEFINITIONS[d].suffix =>
                res[1] = <<ChordOn(SpelledRoot(arg.letter, arg.accidental),
                                   CHORD_DEFINITIONS[d].intervals)>>

\* 'Cbmaj7': the root is found in ENHARMONICS and the notes wrap round.
C15_Witness ==
    /\ Parsed
    /\ arg.str = "Cbmaj7"
    /\ arg.letter = "C" /\ arg.accidental = "b" /\ arg.quality = "maj7"
    /\ res[1] = <<<<11, 3, 6, 10>>>>


\* The triad each alias of a quality stands for.
AliasIntervals(quality) ==
    CASE quality \in {"", "maj", "M"} -> <<0, 4, 7>>
      [] quality \in {"min", "-"}     -> <<0, 3, 7>>
      [] quality = "+"                -> <<0, 4, 8>>
      [] quality = "o"                -> <<0, 3, 6>>

\* C16: after a valid root, an empty quality, "maj" and "M" each give the
\* major triad on that root, "min" and "-" the minor triad, "+" the augmented
\* triad and "o" the diminished triad.
C16_QualityAliases ==
    (Parsed /\ WellSpelled /\ arg.quality \in QualityAliases) =>
        res[1] = <<ChordOn(SpelledRoot(arg.letter, arg.accidental),
                           AliasIntervals(arg.quality))>>


\* The trimmed string begins with a root letter, in either case.
BeginsWithRootLetter(str) ==
    /\ trim(str) # ""
    /\ \/ CharAt(trim(str), 1) \in RootLetters
       \/ CharAt(trim(str), 1) \in {"a", "b", "c", "d", "e", "f", "g"}

HasLineTerminator(str) ==
    \E i \in 1..Len(str) : CharAt(str, i) \in LineTerminators

\* C17: parseChordString returns null exactly when the trimmed string does
\* not begin with a root letter A..G, in either case: every string that
\* begins with a root letter gives a note list, whatever follows.
C17_NullOnlyWithoutRootLetter ==
    Parsed => (res[1] = Null <=> ~BeginsWithRootLetter(arg.str))

\* C17, amended: parseChordString returns null exactly when the trimmed
\* string does not begin with a root letter A..G in either case, or the root
\* letter is followed by an upper-case 'B' (read as an accidental, which gives
\* a root name neither table knows), or a line terminator is left inside the
\* trimmed string; every other string gives a note list.
C17_NullCases ==
    Parsed =>
        (res[1] = Null <=>
            \/ ~BeginsWithRootLetter(arg.str)
            \/ Len(trim(arg.str)) >= 2 /\ CharAt(trim(arg.str), 2) = "B"
            \/ HasLineTerminator(trim(arg.str)))

\* 'CBm' begins with a root letter and still gives null.
C17_Witness ==
    /\ Parsed
    /\ arg.str = "CBm"
    /\ BeginsWithRootLetter(arg.str)
    /\ res[1] = Null

\* The quality matches no catalog suffix and no alias, in lower case.
Unrecognized(quality) ==
    /\ toLowerCase(quality) \notin CatalogSuffixes
    /\ toLowerCase(quality) \notin {toLowerCase(a) : a \in QualityAliases}

Analysed == op = "analyzeTrichord" /\ res # <<>>

Transformed == op = "applyTransform" /\ res # <<>>

\* C19: the type of every structure returned by analyzeTrichord and of every
\* result of applyTransform for 'P', 'L' or 'R' is one of the family tags
\* Major, Minor, Dim, Aug, Sus, Seventh, Other, Unknown.
C19_TypeIsFamilyTag ==
    (Analysed \/ Transformed) =>
        res[1].type \in {"Major", "Minor", "Dim", "Aug", "Sus", "Seventh",
                         "Other", "Unknown"}

\* C19, amended: the type of every structure returned by analyzeTrichord and
\* of every result of applyTransform for 'P', 'L' or 'R' is one of Major,
\* Minor, Dim, Aug, Sus4, Sus2, Seventh, Other, Unknown: the suspended triads
\* are tagged Sus4 and Sus2, and the tag Sus is never produced.
C19_TypeIsShapeTag ==
    (Analysed \/ Transformed) =>
        res[1].type \in {"Major", "Minor", "Dim", "Aug", "Sus4", "Sus2",
                         "Seventh", "Other", "Unknown"}

\* The analysis of F, G, C, a suspended fourth on C.
C19_Witness ==
    /\ Analysed
    /\ arg.notes = <<5, 7, 0>>
    /\ res[1].root = 0
    /\ res[1].type = "Sus4"

\* C20: for a chord of any size the structure returned by analyzeTrichord
\* has isSymmetric true if and only if its x equals its y: the recognized
\* shapes, the Unknown fallback and the fallback of the chords that are not
\* of three notes (x = 4, y = 3) alike.
C20_SymmetricIffEqualSteps ==
    Analysed => (res[1].isSymmetric <=> res[1].x = res[1].y)

\* C, C#, D: no shape is recognized and the two steps are equal.
C20_Witness ==
    /\ Analysed
    /\ arg.notes = <<2, 0, 1>>
    /\ res[1].type = "Unknown"
    /\ res[1].x = 1 /\ res[1].y = 1
    /\ res[1].isSymmetric = TRUE

(***************************************************************************)
(* C22.  normalize is idempotent: for every sequence x of integers, of any *)
(* sign, normalize(normalize(x)) equals normalize(x), and normalize(x) is  *)
(* in ascending order with every element in 0..11.                         *)
(***************************************************************************)
Ascending(s) == \A i \in 1..(Len(s) - 1) : s[i] <= s[i + 1]

C22_NormalizeIdempotent ==
    (op = "normalize" /\ res # <<>>) =>
        /\ Ascending(res[1])
        /\ \A i \in 1..Len(res[1]) : res[1][i] \in PitchClasses
        /\ prev # <<>> => res[1] = prev[1].res[1]

\* normalize([12, -1, -13]) is [0, 11, 11], and normalizing that again
\* leaves it as it is.
C22_Witness ==
    /\ op = "normalize"
    /\ prev # <<>>
    /\ prev[1].arg.notes = <<ModBase, -1, -ModBase - 1>>
    /\ prev[1].res[1] = <<0, 11, 11>>
    /\ res[1] = <<0, 11, 11>>

(***************************************************************************)
(* C23.  Tonnetz direction selection: calculateTonnetzDelta returns        *)
(* {dx: 0, dy: 0} for every transformType other than 'P', 'L', 'R'; for    *)
(* the chord type 'Major' P, R and L use the angles 0, 120 and 240 degrees *)
(* clockwise from straight up (P on 'Major' with distance 60 gives dx 0,   *)
(* dy -60); for every other chord type the angle is the opposite one, 180  *)
(* degrees further.                                                        *)
(* With dx kept in units of sqrt(3)/2: straight up is (0, -distance), 120  *)
(* degrees is (distance * sqrt(3)/2, distance / 2) and 240 degrees is      *)
(* (-distance * sqrt(3)/2, distance / 2); the opposite direction negates   *)
(* both coordinates.                                                       *)
(***************************************************************************)
Delta == res[1]

\* The displacement of the given length at 0, 120 or 240 degrees.
AtAngle(deg, distance) ==
    CASE deg = 0   -> [dx |-> Surd(0, 0),         dy |-> -distance]
      [] deg = 120 -> [dx |-> Surd(distance, 0),  dy |-> distance \div 2]
      [] deg = 240 -> [dx |-> Surd(-distance, 0), dy |-> distance \div 2]

Opposite(delta) == [dx |-> Surd(-delta.dx.r, -delta.dx.q), dy |-> -delta.dy]

MajorAngle(transformType) ==
    CASE transformType = "P" -> 0
      [] transformType = "R" -> 120
      [] transformType = "L" -> 240

IsSus4(notes, root) == IsTriad(notes, root, 5, 7)
IsSus2(notes, root) == IsTriad(notes, root, 2, 7)

\* P applied to the result of P.
AppliedTwice(type) ==
    Applied(type) /\ prev # <<>> /\ prev[1].arg.type = type
        /\ arg.notes = prev[1].res[1].notes

C24_ParallelExchangesSusOnSameRoot ==
    Applied("P") =>
        \A r \in PitchClasses :
            /\ IsSus4(arg.notes, r) => IsSus2(res[1].notes, r)
            /\ IsSus2(arg.notes, r) => IsSus4(res[1].notes, r)
            /\ (AppliedTwice("P") /\ (IsSus4(prev[1].arg.notes, r)
                                        \/ IsSus2(prev[1].arg.notes, r)))
                   => res[1].notes = prev[1].arg.notes

(***************************************************************************)
(* C24 as the code has it.  The notes {r, r+5, r+7} are the Sus4 chord on  *)
(* r and also the Sus2 chord on r+5, and analyzeTrichord reads a chord on  *)
(* the lowest of its pitch classes that is the root of a known shape.  P   *)
(* exchanges Sus4 and Sus2 on that root, moving one note and leaving the   *)
(* others in place: on {r, r+5, r+7} it returns {r, r+2, r+7} for r in     *)
(* 0..6 and {r, r+5, r+10} for r in 7..11; on {r, r+2, r+7} it returns     *)
(* {r, r+5, r+7} for r in 0..4 and {r+2, r+7, r+9} for r in 5..11.  P      *)
(* applied twice returns the chord, except for the Sus4 chords read on the *)
(* roots 5 and 6, {5, 10, 0} and {6, 11, 1}: their Sus2 chord is read on   *)
(* a lower root, and the second P returns {s+2, s+7, s+9}.                 *)
(***************************************************************************)
\* The root a sus chord is read on: its lowest pitch class that is the root
\* of a Sus4 or of a Sus2 reading.
SusRoots(notes) ==
    {r \in PitchClasses : IsSus4(notes, r) \/ IsSus2(notes, r)}

C24_ParallelExchangesSusOnLowestRoot ==
    Applied("P") =>
        /\ SusRoots(arg.notes) # {} =>
              LET s == SetMin(SusRoots(arg.notes))
              IN  /\ res[1].isSelfMap = FALSE
                  /\ IsSus4(arg.notes, s) =>
                        /\ IsSus2(res[1].notes, s)
                        /\ OnlyMoved(arg.notes, res[1].notes, mod(s + 5), s + 2)
                  /\ IsSus2(arg.notes, s) =>
                        /\ IsSus4(res[1].notes, s)
                        /\ OnlyMoved(arg.notes, res[1].notes, mod(s + 2), s + 5)
        /\ \A r \in PitchClasses :
              /\ (IsSus4(arg.notes, r) /\ r <= 6) => IsSus2(res[1].notes, r)
              /\ (IsSus4(arg.notes, r) /\ r >= 7) =>
                    PcSet(res[1].notes) = {r, mod(r + 5), mod(r + 10)}
              /\ (IsSus2(arg.notes, r) /\ r <= 4) => IsSus4(res[1].notes, r)
              /\ (IsSus2(arg.notes, r) /\ r >= 5) =>
                    PcSet(res[1].notes) = {mod(r + 2), mod(r + 7), mod(r + 9)}
        /\ (AppliedTwice("P") /\ SusRoots(prev[1].arg.notes) # {}) =>
              LET c == prev[1].arg.notes
                  s == SetMin(SusRoots(c))
              IN  IF IsSus4(c, s) /\ s \in {5, 6}
                  THEN PcSet(res[1].notes) = {mod(s + 2), mod(s + 7), mod(s + 9)}
                  ELSE res[1].notes = c

\* F sus4 written F, Bb, C is read on F: P moves Bb to G, giving F, G, C.
\* That chord is read as C sus4, so P again moves F to D and gives D, G, C.
C24_Witness ==
    /\ AppliedTwice("P")
    /\ prev[1].arg.notes = <<5, 10, 0>>
    /\ IsSus4(prev[1].arg.notes, 5)
    /\ arg.notes = <<5, 7, 0>>
    /\ res[1].notes = <<2, 7, 0>>

(***************************************************************************)
(* C27.  isSelfMap = false means that the chord changed: for every chord   *)
(* of pitch classes, of any size, and every type in {'P', 'L', 'R'}, when  *)
(* applyTransform returns isSelfMap = false the pitch-class set of the     *)
(* notes returned differs from that of the input.                          *)
(***************************************************************************)
C27_NotSelfMapMeansChanged ==
    (Applied("P") \/ Applied("L") \/ Applied("R")) =>
        (res[1].isSelfMap = FALSE => PcSet(res[1].notes) # PcSet(arg.notes))

(***************************************************************************)
(* Properties of the history hook: C25, C26, C29 and C30 over the steps    *)
(* and states of Spec, C28 over those of SpecTraversal.                    *)
(***************************************************************************)
\* applyTransformation was called and returned a new node.
NewNodeReturned ==
    op = "applyTransformation" /\ res # <<>> /\ "isSelfMap" \notin DOMAIN res[1]

\* C25: every applyTransformation that is not a self-map appends exactly one
\* node to history and one edge to edges, pushes exactly one snapshot of the
\* state it was called in onto the undo stack and empties the redo stack, so
\* that canUndo is true and canRedo false; reset and setChord empty both
\* stacks.
C25_TransformationRecordsOneStep ==
    [][/\ (op' = "applyTransformation"
              /\ ~applyTransform(currentChord, arg'[1]).isSelfMap) =>
            /\ Len(history') = Len(history) + 1
            /\ SubSeq(history', 1, Len(history)) = history
            /\ Len(edges') = Len(edges) + 1
            /\ SubSeq(edges', 1, Len(edges)) = edges
            /\ Len(undoStack') = Len(undoStack) + 1
            /\ SubSeq(undoStack', 1, Len(undoStack)) = undoStack
            /\ undoStack'[Len(undoStack')] =
                   [chord |-> currentChord, history |-> history,
                    edges |-> edges, viewBox |-> viewBox]
            /\ redoStack' = <<>>
            /\ canUndo' /\ ~canRedo'
       /\ op' \in {"reset", "setChord"} =>
            /\ undoStack' = <<>> /\ redoStack' = <<>>
            /\ ~canUndo' /\ ~canRedo'
      ]_vars

\* The second transformation of a traversal was applied away from the
\* initial chord: two nodes were appended, two snapshots are on the undo
\* stack, the latest with one edge, and there is nothing to redo.
C25_Witness ==
    /\ NewNodeReturned
    /\ Len(history) = 3 /\ Len(edges) = 2
    /\ Len(undoStack) = 2 /\ redoStack = <<>>
    /\ undoStack[2].chord # INITIAL_CHORD.notes
    /\ Len(undoStack[2].edges) = 1
    /\ canUndo /\ ~canRedo

\* C26: undo and redo are inverse.  An applyTransformation that is not a
\* self-map followed by undo restores currentChord, history, edges and
\* viewBox to what they were before the transformation, and a redo that
\* follows an undo restores what they were just before the undo; undo with
\* an empty undo stack and redo with an empty redo stack change nothing.
C26_UndoRedoInverse ==
    [][/\ (NewNodeReturned /\ op' = "undo") => Shown' = prev[1]
       /\ (op = "undo" /\ prev # <<>> /\ op' = "redo") => Shown' = prev[1]
       /\ (op' = "undo" /\ undoStack = <<>>) => UNCHANGED hookVars
       /\ (op' = "redo" /\ redoStack = <<>>) => UNCHANGED hookVars
      ]_vars

\* Two transformations, an undo and a redo: the redo brought back the
\* three nodes the undo had taken to two.
C26_Witness ==
    /\ op = "redo" /\ prev # <<>>
    /\ Len(prev[1].history) = 2
    /\ Len(history) = 3 /\ Len(edges) = 2
    /\ currentChord = history[3].notes
    /\ Len(undoStack) = 2 /\ redoStack = <<>>

\* C28: starting from the initial chord [0, 4, 7], after any sequence of
\* applyTransformation with P, L or R, undo, redo, reset and goToNode, the
\* current chord is a major or minor triad of three distinct pitch classes
\* in 0..11, and no transformation of such a run is a self-map.
IsMajorOrMinorTriad(notes) ==
    /\ Len(notes) = 3
    /\ Cardinality(PcSet(notes)) = 3
    /\ PcSet(notes) \subseteq PitchClasses
    /\ \E r \in PitchClasses : IsMajor(notes, r) \/ IsMinor(notes, r)

C28_TraversalStaysInTriads ==
    /\ IsMajorOrMinorTriad(currentChord)
    /\ \A type \in TransformTypes : ~applyTransform(currentChord, type).isSelfMap
    /\ op = "applyTransformation" => NewNodeReturned

\* L, then P, then back to the node in between: the chords are C major,
\* E minor, E major and E minor again.
C28_Witness ==
    /\ op = "goToNode" /\ res # <<>>
    /\ Len(history) = 3
    /\ IsMinor(history[2].notes, 4)
    /\ IsMajor(history[3].notes, 4)
    /\ currentChord = history[2].notes

\* C29: in every reachable state of the hook history is not empty and
\* edges.length equals history.length - 1.
C29_OneEdgePerNodeButTheFirst ==
    /\ Len(history) >= 1
    /\ Len(edges) = Len(history) - 1

\* A transformation was undone from three nodes and two edges to two nodes
\* and one edge.
C29_Witness ==
    /\ op = "undo" /\ prev # <<>>
    /\ Len(prev[1].history) = 3 /\ Len(prev[1].edges) = 2
    /\ Len(history) = 2 /\ Len(edges) = 1

\* C30: every edge of the traversal graph is a transformation step: each
\* edge {from, to, type} has to.notes = normalize(applyTransform(from.notes,
\* type).notes), also after goToNode, so that a new edge starts at the node
\* holding the chord that was transformed.
C30_EdgesAreTransformationSteps ==
    \A e \in 1..Len(edges) :
        edges[e].to.notes =
            normalize(applyTransform(edges[e].from.notes, edges[e].type).notes)

\* The tables of the constants module hold what they were declared with,
\* contents and order.
TablesAsDeclared ==
    /\ heap.NOTES = NOTES
    /\ heap.ENHARMONICS = ENHARMONICS
    /\ heap.CHORD_DEFINITIONS = CHORD_DEFINITIONS

\* The array passed to the call the state is about.
ArrayOfCall == IF op = "again" THEN arg.array ELSE PassedArray(op, arg)

\* C21: normalize, identifyChord, parseChordString, buildChord,
\* getNegativeNote, getNegativeChord and applyTransform are pure: after a
\* call the array passed in and the tables NOTES, ENHARMONICS and
\* CHORD_DEFINITIONS hold what they held before, contents and order, and the
\* same call made again, whatever was called in between, returns the same
\* result.
C21_EngineFunctionsArePure ==
    (res # <<>> /\ op \in PureFunctions \cup {"again"}) =>
        /\ TablesAsDeclared
        /\ heap.input = ArrayOfCall
        /\ heap.other = OtherArray
        /\ op = "again" => res[1] = arg.first

\* parseChordString parsed a chord, sorting its copy of CHORD_DEFINITIONS
\* into another order than the table's, and parsed the same chord again.
C21_Witness ==
    /\ op = "again" /\ res # <<>>
    /\ arg.op = "parseChordString"
    /\ arg.first # Null /\ res[1] = arg.first
    /\ SortBySuffix(CHORD_DEFINITIONS) # CHORD_DEFINITIONS
    /\ heap.CHORD_DEFINITIONS = CHORD_DEFINITIONS

====
